---- MODULE Spec2Model ----
(***************************************************************************)
(* Client-side Firebase authentication glue of the stroke-prediction app:  *)
(* the auth wrapper (static/js/firebase-config.js), the registration page  *)
(* script (register-auth.js) and the forgot-password page script           *)
(* (forgot-password-auth.js); and, each under a specification of its own,  *)
(* the error translator called with any code (SpecTranslate), the          *)
(* auth-state listener that mirrors the user into sessionStorage           *)
(* (SpecAuthState) and the ThemeManager of the tabs of the origin          *)
(* (SpecTheme, SpecThemeStore).                                            *)
(*                                                                         *)
(* Every `await` of the source is a suspension point.  One action of the   *)
(* model is the settlement of the awaited promise together with all the    *)
(* synchronous code the handler runs up to its next await (or its end).    *)
(* The provider SDK, the backend and the transport are the environment:    *)
(* their outcomes are chosen nondeterministically.                         *)
(***************************************************************************)
EXTENDS Integers, Sequences, FiniteSets, TLC

VARIABLES
    location,      \* window.location: the page the scripts are loaded in
    authReady,     \* whether firebase.auth() returned (firebase-config.js:22-30)
    currentUser,   \* auth.currentUser
    submitBtn,     \* #submitBtn of the loaded page: [disabled, innerHTML]
    googleBtn,     \* #googleSignUpBtn: [disabled, innerHTML]
    errorDiv,      \* text of the .error-message element, or NoElement
    successDiv,    \* text of the .success-message element, or NoElement
    emailInput,    \* value of the #emailInput field of the loaded page
    timers,        \* navigation timers scheduled with setTimeout, in order
    unhandled,     \* handler runs whose promise rejected (unhandledrejection)
    reg,           \* the registerForm submit handler's run: position and locals
    goo,           \* the googleSignUpBtn click handler's run
    rst,           \* the forgotPasswordForm submit handler's run
    sgo,           \* a call of signOut() and the AuthResult it returned
    translation,   \* a call of getErrorMessage(code) and what it returned
    authEvents,    \* the auth states the provider has reported, in order
    authHandled,   \* how many of them the onAuthStateChanged listener has handled
    sessionStorage,\* sessionStorage's item 'firebaseUser', Null when absent
    tabs,          \* per browser tab, its ThemeManager and the DOM it styles
    localStorage,  \* localStorage's item 'theme', Null when absent
    storageEvents  \* per tab, the storage events queued for its window

pageVars == <<location, authReady, currentUser, submitBtn, googleBtn, errorDiv,
              successDiv, emailInput, timers, unhandled, reg, goo, rst, sgo>>

mirrorVars == <<authEvents, authHandled, sessionStorage>>

themeVars == <<tabs, localStorage, storageEvents>>

vars == <<pageVars, translation, mirrorVars, themeVars>>

(***************************************************************************)
(* Bounds of the model.                                                    *)
(***************************************************************************)
\* Longest e-mail value typed into the forgot-password form.
MaxEmailLen == 5

(***************************************************************************)
(* JavaScript values.                                                      *)
(***************************************************************************)
Undefined == "undefined"
Null == "null"
NoElement == "<none>"
NoResult == [none |-> TRUE]
NoUser == [null |-> TRUE]

\* The operands `a || b` falls through on.
JsFalsy(v) == v \in {Undefined, Null, "", "false"}

JsOr(a, b) == IF JsFalsy(a) THEN b ELSE a

\* Whether a local has been assigned.
IsSet(v) == "none" \notin DOMAIN v

IsResult(r) == IsSet(r)

(***************************************************************************)
(* Pages, labels, messages and URLs of the source.                         *)
(***************************************************************************)
RegisterPage == "/register"
ForgotPage == "/forgot-password"

SpinnerHTML == "<i class=\"fas fa-spinner fa-spin\"></i> Please wait..."
SubmitLabel == "Submit"
GoogleLabel == "Sign up with Google"

MsgMismatch == "Passwords do not match!"
MsgCreated == "Account created successfully! Please verify your email. Redirecting..."
MsgRegFailed == "Registration failed. Please try again."
MsgNetwork == "Network error. Please try again."
MsgRecreated == "Account re-created successfully! Redirecting..."
MsgReregFailed == "Re-registration failed. Please try again."
MsgAccountExists == "An account with this email exists. Please sign in or use a different email."
MsgGoogleCreated == "Account created successfully! Redirecting..."
MsgInvalidEmail == "Please enter a valid email address."
MsgResetSent == "Password reset email sent! Please check your inbox (and spam folder)."
MsgFallback == "An error occurred. Please try again."

UrlLoginCreated == "/login?success=Account created! Please check your email to verify your account."
UrlLoginReset == "/login?success=Password reset email sent. Please check your inbox."
UrlDashboard == "/dashboard"
UrlRegister == "/firebase-register"
UrlCheckDeleted == "/api/check-deleted-email"

RegRedirectDelay == 2000
ReregRedirectDelay == 1500
GoogleRedirectDelay == 1000
ResetRedirectDelay == 2500

(***************************************************************************)
(* Error Translator (firebase-config.js:175-198).                          *)
(***************************************************************************)
errorMessages ==
    [c \in {"auth/email-already-in-use", "auth/invalid-email",
            "auth/operation-not-allowed", "auth/weak-password",
            "auth/user-disabled", "auth/user-not-found", "auth/wrong-password",
            "auth/invalid-credential", "auth/too-many-requests",
            "auth/network-request-failed", "auth/popup-closed-by-user",
            "auth/cancelled-popup-request", "auth/popup-blocked",
            "auth/account-exists-with-different-credential",
            "auth/invalid-action-code", "auth/expired-action-code",
            "auth/missing-email", "auth/requires-recent-login"} |->
       CASE c = "auth/email-already-in-use" -> "This email is already registered. Please sign in instead."
         [] c = "auth/invalid-email" -> "Please enter a valid email address."
         [] c = "auth/operation-not-allowed" -> "Email/password accounts are not enabled. Please contact support."
         [] c = "auth/weak-password" -> "Password should be at least 6 characters long."
         [] c = "auth/user-disabled" -> "This account has been disabled. Please contact support."
         [] c = "auth/user-not-found" -> "No account found with this email. Please sign up first."
         [] c = "auth/wrong-password" -> "Incorrect password. Please try again."
         [] c = "auth/invalid-credential" -> "Invalid email or password. Please try again."
         [] c = "auth/too-many-requests" -> "Too many failed attempts. Please try again later."
         [] c = "auth/network-request-failed" -> "Network error. Please check your connection."
         [] c = "auth/popup-closed-by-user" -> "Sign-in popup was closed. Please try again."
         [] c = "auth/cancelled-popup-request" -> "Sign-in was cancelled."
         [] c = "auth/popup-blocked" -> "Popup was blocked by your browser. Please allow popups and try again."
         [] c = "auth/account-exists-with-different-credential" -> "An account already exists with the same email but different sign-in credentials."
         [] c = "auth/invalid-action-code" -> "The password reset link is invalid or has expired. Please request a new one."
         [] c = "auth/expired-action-code" -> "The password reset link has expired. Please request a new one."
         [] c = "auth/missing-email" -> "Please enter your email address."
         [] c = "auth/requires-recent-login" -> "This operation requires recent authentication. Please sign in again."]

\* Property names every object literal inherits from Object.prototype: a
\* lookup of one of them yields the inherited (truthy) member, not undefined.
ObjectPrototypeKeys ==
    {"constructor", "toString", "valueOf", "hasOwnProperty", "__proto__"}

InheritedMember(k) == "[object member " \o k \o "]"

getErrorMessage(errorCode) ==
    LET found == IF errorCode \in DOMAIN errorMessages
                     THEN errorMessages[errorCode]
                 ELSE IF errorCode \in ObjectPrototypeKeys
                     THEN InheritedMember(errorCode)
                 ELSE Undefined
    IN  JsOr(found, MsgFallback)

(***************************************************************************)
(* Provider accounts and tokens.                                           *)
(***************************************************************************)
Names == {"", "Ann"}
Emails == {"ann@example.com"}
Passwords == {"pw-one", "pw-two"}

\* The user object of userCredential.user after an e-mail sign-up or sign-in.
EmailUser(email) ==
    [uid |-> "uid:" \o email, email |-> email, displayName |-> Null,
     photoURL |-> Null]

GoogleUser ==
    [uid |-> "uid:google", email |-> "gina@gmail.com", displayName |-> "Gina",
     photoURL |-> "https://lh3.example/gina.png"]

\* user.getIdToken(): a bearer token of that user.
IdToken(user) == "jwt:" \o user.uid

Ok == [ok |-> TRUE]
Err(code) == [ok |-> FALSE, code |-> code]
ErrMsg(code, message) == [ok |-> FALSE, code |-> code, message |-> message]

\* What the provider's calls may answer.  With `auth` undefined every
\* `auth.x(...)` throws a TypeError, whose `code` is undefined.
TypeErrorMsg == "Cannot read properties of undefined"

ProviderOutcomes(codes) ==
    IF authReady THEN {Ok} \cup {Err(c) : c \in codes}
    ELSE {Err(Undefined)}

CreateCodes == {"auth/email-already-in-use", "auth/weak-password",
                "auth/network-request-failed"}
TrailingCodes == {"auth/too-many-requests", "auth/network-request-failed"}
SignInCodes == {"auth/wrong-password", "auth/network-request-failed"}
PopupCodes == {"auth/popup-closed-by-user", "auth/popup-blocked"}
ResetCodes == {"auth/user-not-found", "auth/network-request-failed"}

\* What the backend's JSON bodies may hold.
RegisterData == {[success |-> TRUE], [success |-> FALSE],
                 [success |-> FALSE, error |-> "Email is not allowed."]}
CheckData == {[deleted |-> TRUE], [deleted |-> FALSE]}

(***************************************************************************)
(* Loading state (firebase-config.js:35-47).                               *)
(***************************************************************************)
showLoading_KeepsEnabled(button) ==
    [disabled |-> FALSE, innerHTML |-> SpinnerHTML]

showLoading(button) == [disabled |-> TRUE, innerHTML |-> SpinnerHTML]

hideLoading(button, originalText) ==
    [disabled |-> FALSE, innerHTML |-> originalText]

(***************************************************************************)
(* Auth Client Wrapper: what each function returns (firebase-config.js).   *)
(***************************************************************************)
\* signInWithEmail, lines 83-94.
signInWithEmail(o, user) ==
    IF o.ok THEN [success |-> TRUE, user |-> user]
    ELSE [success |-> FALSE, error |-> getErrorMessage(o.code)]

\* signUpWithEmail's return at line 111.
signUpWithEmailReturn(user) == [success |-> TRUE, user |-> user]

\* signUpWithEmail's catch, lines 112-114: it catches a rejection of any of
\* the three awaited calls.
signUpWithEmailCatch(code) ==
    [success |-> FALSE, error |-> getErrorMessage(code), rawCode |-> code]

\* signInWithGoogle, lines 118-130.
signInWithGoogle(o, user) ==
    IF o.ok THEN [success |-> TRUE, user |-> user]
    ELSE [success |-> FALSE, error |-> getErrorMessage(o.code)]

\* Mutant of resetPassword: the catch returns the provider's code untranslated.
resetPassword_RawCode(o) ==
    IF o.ok THEN [success |-> TRUE]
    ELSE [success |-> FALSE, error |-> o.code]

\* resetPassword, lines 133-148.
resetPassword(o) ==
    IF o.ok THEN [success |-> TRUE]
    ELSE [success |-> FALSE, error |-> getErrorMessage(o.code)]

\* Mutant of signOut: the catch reports success.
signOut_SuccessOnError(o) ==
    IF o.ok THEN [success |-> TRUE]
    ELSE [success |-> TRUE, error |-> o.message]

\* signOut, lines 151-158.
signOut(o) ==
    IF o.ok THEN [success |-> TRUE]
    ELSE [success |-> FALSE, error |-> o.message]

(***************************************************************************)
(* Requests.                                                               *)
(***************************************************************************)
ProviderCall(api, arg) == [api |-> api, arg |-> arg]
Fetch(url, body) == [api |-> "fetch", url |-> url, body |-> body]

\* Mutant of completeBackendRegistration: the flag is sent as true whatever
\* the caller passed.
completeBackendRegistration_AlwaysRereg(token, email, uid, name, photoURL, provider, isReregistration) ==
    Fetch(UrlRegister,
          [token |-> token, email |-> email, uid |-> uid, displayName |-> name,
           photoURL |-> JsOr(photoURL, ""),
           provider |-> JsOr(provider, "email"),
           is_reregistration |-> "true"])

\* The body completeBackendRegistration posts (register-auth.js:4-19).
completeBackendRegistration(token, email, uid, name, photoURL, provider, isReregistration) ==
    Fetch(UrlRegister,
          [token |-> token, email |-> email, uid |-> uid, displayName |-> name,
           photoURL |-> JsOr(photoURL, ""),
           provider |-> JsOr(provider, "email"),
           is_reregistration |-> JsOr(isReregistration, "false")])

\* The body the Google handler posts (register-auth.js:118-131).
googleRegistration(token, user) ==
    Fetch(UrlRegister,
          [token |-> token, email |-> user.email, uid |-> user.uid,
           displayName |-> user.displayName, photoURL |-> user.photoURL,
           provider |-> "google"])

IsRegisterCall(c) == c.api = "fetch" /\ c.url = UrlRegister

IsProviderCall(c) == c.api # "fetch"

Timer(by, url, delay) == [by |-> by, url |-> url, delay |-> delay]

\* `data.error` of a parsed body: undefined when the key is missing.
DataError(data) == IF "error" \in DOMAIN data THEN data.error ELSE Undefined

(***************************************************************************)
(* Registration Flow Controller: the registerForm submit handler           *)
(* (register-auth.js:22-103).                                              *)
(***************************************************************************)
RegIdle ==
    [pc |-> "idle", end |-> "none", branch |-> "none",
     name |-> "", email |-> "", password |-> "", confirmPassword |-> "",
     originalText |-> Undefined, created |-> Undefined, user |-> NoUser,
     result |-> NoResult, tokenUser |-> NoUser, token |-> Undefined,
     data |-> NoResult, checkData |-> NoResult, signInResult |-> NoResult,
     failedAt |-> "none", calls |-> <<>>, shown |-> <<>>]

\* The handler suspends at its next await.
RegSuspend(run) ==
    /\ reg' = run
    /\ UNCHANGED <<submitBtn, errorDiv, successDiv, timers>>

\* hideLoading(submitBtn, originalText); showError(message): the run ends.
RegFail(run, message) ==
    /\ reg' = [run EXCEPT !.pc = "idle", !.end = "failed",
                          !.shown = Append(@, message)]
    /\ submitBtn' = hideLoading(submitBtn, run.originalText)
    /\ errorDiv' = message
    /\ UNCHANGED <<successDiv, timers>>

\* showSuccess(message); setTimeout(() => location.href = url, delay).
RegSucceed(run, message, url, delay) ==
    /\ reg' = [run EXCEPT !.pc = "idle", !.end = "redirect",
                          !.shown = Append(@, message)]
    /\ successDiv' = message
    /\ timers' = Append(timers, Timer("register", url, delay))
    /\ UNCHANGED <<submitBtn, errorDiv>>

\* Mutant of RegPasswordsDiffer: the confirmation is not compared.
RegPasswordsDiffer_Never(password, confirmPassword) == FALSE

\* The validation of lines 31-35.
RegPasswordsDiffer(password, confirmPassword) == password # confirmPassword

\* The user whose profile a branch forwards to the backend.
RegBackendUser(run) ==
    IF run.branch = "normal" THEN run.result.user ELSE run.signInResult.user

\* Mutant of RegBackendCall: the recovery branch omits its last arguments.
RegBackendCall_NoReregFlag(run, token) ==
    completeBackendRegistration(token, RegBackendUser(run).email,
        RegBackendUser(run).uid, run.name, Undefined, Undefined, Undefined)

\* The call of completeBackendRegistration of line 45 (normal path) and of
\* lines 76-79 (recovery branch).
RegBackendCall(run, token) ==
    IF run.branch = "normal"
    THEN completeBackendRegistration(token, RegBackendUser(run).email,
             RegBackendUser(run).uid, run.name, Undefined, Undefined, Undefined)
    ELSE completeBackendRegistration(token, RegBackendUser(run).email,
             RegBackendUser(run).uid, run.name, Null, "email", "true")

\* The catch of lines 55-58 (normal path) and of lines 95-98 (recovery).
RegCatch(run, at) ==
    IF run.branch = "normal"
    THEN RegFail([run EXCEPT !.failedAt = at], MsgNetwork)
    ELSE RegFail([run EXCEPT !.failedAt = at], run.result.error)

\* `await getUserToken()` of lines 44 and 75, with getUserToken
\* (firebase-config.js:166-172): `cur` is auth.currentUser as read now.
\* With nobody signed in the token is null and the POST follows at once.
RegGetToken(run, cur) ==
    IF cur = NoUser
    THEN RegSuspend([run EXCEPT !.pc = "post", !.token = Null,
                                !.calls = Append(@, RegBackendCall(run, Null))])
    ELSE RegSuspend([run EXCEPT !.pc = "token", !.tokenUser = cur,
                                !.calls = Append(@, ProviderCall("getIdToken", cur.uid))])

\* Lines 41, 59 and 99: the dispatch on signUpWithEmail's result.
RegAfterSignUp(run, result) ==
    IF result.success
    THEN RegGetToken([run EXCEPT !.result = result, !.branch = "normal"],
                     currentUser')
    ELSE IF result.rawCode = "auth/email-already-in-use"
    THEN RegSuspend([run EXCEPT !.result = result, !.branch = "recovery",
                         !.pc = "check",
                         !.calls = Append(@, Fetch(UrlCheckDeleted, [email |-> run.email]))])
    ELSE RegFail([run EXCEPT !.result = result], result.error)

\* Mutant of RegNormalData: data.success is not looked at.
RegNormalData_AlwaysRedirect(run, data) ==
    RegSucceed(run, MsgCreated, UrlLoginCreated, RegRedirectDelay)

\* Lines 46-54 (normal path): the backend's answer.
RegNormalData(run, data) ==
    IF data.success
    THEN RegSucceed(run, MsgCreated, UrlLoginCreated, RegRedirectDelay)
    ELSE RegFail(run, JsOr(DataError(data), MsgRegFailed))

\* Lines 80-86 (recovery branch): the backend's answer.
RegRecoveryData(run, data) ==
    IF data.success
    THEN RegSucceed(run, MsgRecreated, UrlDashboard, ReregRedirectDelay)
    ELSE RegFail(run, JsOr(DataError(data), MsgReregFailed))

\* Mutant of RegCheckData: checkData.deleted is not looked at.
RegCheckData_IgnoresDeleted(run, checkData) ==
    RegSuspend([run EXCEPT !.pc = "signIn",
        !.calls = Append(@, ProviderCall("signInWithEmailAndPassword", run.email))])

\* Mutant of RegCheckData: a deleted account is re-registered at once,
\* without the sign-in.
RegCheckData_PostsWithoutSignIn(run, checkData) ==
    IF checkData.deleted
    THEN RegSuspend([run EXCEPT !.pc = "post",
             !.calls = Append(@, completeBackendRegistration(Null, run.email,
                                     Undefined, run.name, Null, "email", "true"))])
    ELSE RegFail(run, run.result.error)

\* Lines 70-94: the answer of /api/check-deleted-email.
RegCheckData(run, checkData) ==
    IF checkData.deleted
    THEN RegSuspend([run EXCEPT !.pc = "signIn",
             !.calls = Append(@, ProviderCall("signInWithEmailAndPassword", run.email))])
    ELSE RegFail(run, run.result.error)

\* Mutant of RegSignedIn: a failed sign-in shows the first error again.
RegSignedIn_ShowsFirstError(run, signInResult) ==
    IF signInResult.success
    THEN RegGetToken([run EXCEPT !.signInResult = signInResult], currentUser')
    ELSE RegFail([run EXCEPT !.signInResult = signInResult], run.result.error)

\* Lines 74-90: signInWithEmail's result in the recovery branch.
RegSignedIn(run, signInResult) ==
    IF signInResult.success
    THEN RegGetToken([run EXCEPT !.signInResult = signInResult], currentUser')
    ELSE RegFail([run EXCEPT !.signInResult = signInResult], MsgAccountExists)

\* Lines 22-39: the submit event.  The browser submits the form only while
\* its submit button is enabled.
RegSubmit ==
    /\ location = RegisterPage
    /\ reg.pc = "idle"
    /\ ~submitBtn.disabled
    /\ \E n \in Names, p \in Passwords, c \in Passwords :
         LET e == emailInput
             run == [RegIdle EXCEPT !.name = n, !.email = e, !.password = p,
                                    !.confirmPassword = c]
         IN  IF RegPasswordsDiffer(p, c)
             THEN /\ reg' = [run EXCEPT !.end = "mismatch",
                                        !.shown = <<MsgMismatch>>]
                  /\ errorDiv' = MsgMismatch
                  /\ UNCHANGED submitBtn
             ELSE /\ reg' = [run EXCEPT !.pc = "create",
                         !.originalText = submitBtn.innerHTML,
                         !.calls = IF authReady
                                   THEN <<ProviderCall("createUserWithEmailAndPassword", e)>>
                                   ELSE <<>>]
                  /\ submitBtn' = showLoading(submitBtn)
                  /\ UNCHANGED errorDiv
    /\ UNCHANGED <<location, authReady, translation, mirrorVars, themeVars,
                   emailInput, currentUser, googleBtn, successDiv, timers,
                   unhandled, goo, rst, sgo>>

\* signUpWithEmail, line 99: createUserWithEmailAndPassword settles.
RegCreateSettles ==
    /\ location = RegisterPage
    /\ reg.pc = "create"
    /\ \E o \in ProviderOutcomes(CreateCodes) :
         IF o.ok
         THEN /\ currentUser' = EmailUser(reg.email)
              /\ IF ~JsFalsy(reg.name)
                 THEN RegSuspend([reg EXCEPT !.pc = "profile", !.created = "ok",
                          !.user = EmailUser(reg.email),
                          !.calls = Append(@, ProviderCall("updateProfile", reg.name))])
                 ELSE RegSuspend([reg EXCEPT !.pc = "verify", !.created = "ok",
                          !.user = EmailUser(reg.email),
                          !.calls = Append(@, ProviderCall("sendEmailVerification", reg.email))])
         ELSE /\ currentUser' = currentUser
              /\ RegAfterSignUp([reg EXCEPT !.created = o.code],
                                signUpWithEmailCatch(o.code))
    /\ UNCHANGED <<location, authReady, translation, mirrorVars, themeVars,
                   emailInput, googleBtn, unhandled, goo, rst, sgo>>

\* signUpWithEmail, lines 102-106: updateProfile settles.  The profile is
\* set on the user object, which auth.currentUser shares while it is current.
RegProfileSettles ==
    /\ location = RegisterPage
    /\ reg.pc = "profile"
    /\ \E o \in ProviderOutcomes(TrailingCodes) :
         IF o.ok
         THEN /\ currentUser' =
                     IF currentUser # NoUser /\ currentUser.uid = reg.user.uid
                     THEN [currentUser EXCEPT !.displayName = reg.name]
                     ELSE currentUser
              /\ RegSuspend([reg EXCEPT !.pc = "verify",
                      !.user = [@ EXCEPT !.displayName = reg.name],
                      !.calls = Append(@, ProviderCall("sendEmailVerification", reg.email))])
         ELSE /\ currentUser' = currentUser
              /\ RegAfterSignUp(reg, signUpWithEmailCatch(o.code))
    /\ UNCHANGED <<location, authReady, translation, mirrorVars, themeVars,
                   emailInput, googleBtn, unhandled, goo, rst, sgo>>

\* signUpWithEmail, lines 109-111: sendEmailVerification settles.
RegVerifySettles ==
    /\ location = RegisterPage
    /\ reg.pc = "verify"
    /\ currentUser' = currentUser
    /\ \E o \in ProviderOutcomes(TrailingCodes) :
         IF o.ok
         THEN RegAfterSignUp(reg, signUpWithEmailReturn(reg.user))
         ELSE RegAfterSignUp(reg, signUpWithEmailCatch(o.code))
    /\ UNCHANGED <<location, authReady, translation, mirrorVars, themeVars,
                   emailInput, googleBtn, unhandled, goo, rst, sgo>>

\* Lines 44-45 and 75-79: user.getIdToken() settles; on a token the POST to
\* /firebase-register is issued.
RegTokenSettles ==
    /\ location = RegisterPage
    /\ reg.pc = "token"
    /\ \E ok \in BOOLEAN :
         IF ok
         THEN RegSuspend([reg EXCEPT !.pc = "post",
                  !.token = IdToken(reg.tokenUser),
                  !.calls = Append(@, RegBackendCall(reg, IdToken(reg.tokenUser)))])
         ELSE RegCatch(reg, "getIdToken")
    /\ UNCHANGED <<location, authReady, translation, mirrorVars, themeVars,
                   emailInput, currentUser, googleBtn, unhandled, goo, rst,
                   sgo>>

\* completeBackendRegistration, lines 5-17: fetch settles.
RegFetchSettles ==
    /\ location = RegisterPage
    /\ reg.pc = "post"
    /\ \E ok \in BOOLEAN :
         IF ok THEN RegSuspend([reg EXCEPT !.pc = "json"])
         ELSE RegCatch(reg, "fetch")
    /\ UNCHANGED <<location, authReady, translation, mirrorVars, themeVars,
                   emailInput, currentUser, googleBtn, unhandled, goo, rst,
                   sgo>>

\* completeBackendRegistration, line 18, then lines 46-54 or 80-86:
\* response.json() settles.
RegJsonSettles ==
    /\ location = RegisterPage
    /\ reg.pc = "json"
    /\ \/ \E data \in RegisterData :
            IF reg.branch = "normal"
            THEN RegNormalData([reg EXCEPT !.data = data], data)
            ELSE RegRecoveryData([reg EXCEPT !.data = data], data)
       \/ RegCatch(reg, "json")
    /\ UNCHANGED <<location, authReady, translation, mirrorVars, themeVars,
                   emailInput, currentUser, googleBtn, unhandled, goo, rst,
                   sgo>>

\* Lines 63-67: the fetch of /api/check-deleted-email settles.
RegCheckFetchSettles ==
    /\ location = RegisterPage
    /\ reg.pc = "check"
    /\ \E ok \in BOOLEAN :
         IF ok THEN RegSuspend([reg EXCEPT !.pc = "checkJson"])
         ELSE RegCatch(reg, "fetch-check")
    /\ UNCHANGED <<location, authReady, translation, mirrorVars, themeVars,
                   emailInput, currentUser, googleBtn, unhandled, goo, rst,
                   sgo>>

\* Lines 68-94: checkRes.json() settles.
RegCheckJsonSettles ==
    /\ location = RegisterPage
    /\ reg.pc = "checkJson"
    /\ \/ \E checkData \in CheckData :
            RegCheckData([reg EXCEPT !.checkData = checkData], checkData)
       \/ RegCatch(reg, "json-check")
    /\ UNCHANGED <<location, authReady, translation, mirrorVars, themeVars,
                   emailInput, currentUser, googleBtn, unhandled, goo, rst,
                   sgo>>

\* Line 73 with signInWithEmail (firebase-config.js:83-94):
\* signInWithEmailAndPassword settles.
RegSignInSettles ==
    /\ location = RegisterPage
    /\ reg.pc = "signIn"
    /\ \E o \in ProviderOutcomes(SignInCodes) :
         /\ currentUser' = IF o.ok THEN EmailUser(reg.email) ELSE currentUser
         /\ RegSignedIn(reg, signInWithEmail(o, EmailUser(reg.email)))
    /\ UNCHANGED <<location, authReady, translation, mirrorVars, themeVars,
                   emailInput, googleBtn, unhandled, goo, rst, sgo>>

(***************************************************************************)
(* Google sign-up: the googleSignUpBtn click handler                       *)
(* (register-auth.js:106-152).                                             *)
(***************************************************************************)
GooIdle ==
    [pc |-> "idle", end |-> "none", originalText |-> Undefined,
     result |-> NoResult, tokenUser |-> NoUser, token |-> Undefined,
     data |-> NoResult, failedAt |-> "none", calls |-> <<>>, shown |-> <<>>]

GooSuspend(run) ==
    /\ goo' = run
    /\ UNCHANGED <<googleBtn, errorDiv, successDiv, timers, unhandled>>

\* hideLoading(btn, originalText); showError(message): the run ends.
GooFail(run, message) ==
    /\ goo' = [run EXCEPT !.pc = "idle", !.end = "failed",
                          !.shown = Append(@, message)]
    /\ googleBtn' = hideLoading(googleBtn, run.originalText)
    /\ errorDiv' = message
    /\ UNCHANGED <<successDiv, timers, unhandled>>

\* Lines 136-139: showSuccess and the redirect timer.
GooSucceed(run) ==
    /\ goo' = [run EXCEPT !.pc = "idle", !.end = "redirect",
                          !.shown = Append(@, MsgGoogleCreated)]
    /\ successDiv' = MsgGoogleCreated
    /\ timers' = Append(timers, Timer("google", UrlDashboard, GoogleRedirectDelay))
    /\ UNCHANGED <<googleBtn, errorDiv, unhandled>>

\* A rejection of `await getUserToken()` at line 114, which no try block
\* encloses: the handler's promise rejects and nothing after line 114 runs.
GooTokenRejected(run) ==
    /\ goo' = [run EXCEPT !.pc = "idle", !.end = "rejected",
                          !.failedAt = "getIdToken"]
    /\ unhandled' = unhandled \cup {[by |-> "google", at |-> "getIdToken"]}
    /\ UNCHANGED <<googleBtn, errorDiv, successDiv, timers>>

\* The catch of lines 144-147.
GooCatch(run, at) == GooFail([run EXCEPT !.failedAt = at], MsgNetwork)

\* Line 114 with getUserToken (firebase-config.js:166-172), then the fetch
\* of lines 118-131 when the token is there at once.
GooGetToken(run, cur) ==
    IF cur = NoUser
    THEN GooSuspend([run EXCEPT !.pc = "post", !.token = Null,
                         !.calls = Append(@, googleRegistration(Null, run.result.user))])
    ELSE GooSuspend([run EXCEPT !.pc = "token", !.tokenUser = cur,
                         !.calls = Append(@, ProviderCall("getIdToken", cur.uid))])

\* Lines 112 and 148-151: the dispatch on signInWithGoogle's result.
GooAfterSignIn(run, result) ==
    IF result.success
    THEN GooGetToken([run EXCEPT !.result = result], currentUser')
    ELSE GooFail([run EXCEPT !.result = result], result.error)

\* Lines 133-143: the backend's answer.
GooData(run, data) ==
    IF data.success THEN GooSucceed(run)
    ELSE GooFail(run, JsOr(DataError(data), MsgRegFailed))

\* Lines 106-110: the click event; a disabled button fires none.
GooClick ==
    /\ location = RegisterPage
    /\ goo.pc = "idle"
    /\ ~googleBtn.disabled
    /\ goo' = [GooIdle EXCEPT !.pc = "popup",
                   !.originalText = googleBtn.innerHTML,
                   !.calls = IF authReady THEN <<ProviderCall("signInWithPopup", "google")>>
                             ELSE <<>>]
    /\ googleBtn' = showLoading(googleBtn)
    /\ UNCHANGED <<location, authReady, translation, mirrorVars, themeVars,
                   emailInput, currentUser, submitBtn, errorDiv, successDiv,
                   timers, unhandled, reg, rst, sgo>>

\* Line 110 with signInWithGoogle (firebase-config.js:118-130):
\* signInWithPopup settles.
GooPopupSettles ==
    /\ location = RegisterPage
    /\ goo.pc = "popup"
    /\ \E o \in ProviderOutcomes(PopupCodes) :
         /\ currentUser' = IF o.ok THEN GoogleUser ELSE currentUser
         /\ GooAfterSignIn(goo, signInWithGoogle(o, GoogleUser))
    /\ UNCHANGED <<location, authReady, translation, mirrorVars, themeVars,
                   emailInput, submitBtn, reg, rst, sgo>>

\* Line 114: user.getIdToken() settles; on a token the fetch is issued.
GooTokenSettles ==
    /\ location = RegisterPage
    /\ goo.pc = "token"
    /\ \E ok \in BOOLEAN :
         IF ok
         THEN GooSuspend([goo EXCEPT !.pc = "post",
                  !.token = IdToken(goo.tokenUser),
                  !.calls = Append(@, googleRegistration(IdToken(goo.tokenUser),
                                                         goo.result.user))])
         ELSE GooTokenRejected(goo)
    /\ UNCHANGED <<location, authReady, translation, mirrorVars, themeVars,
                   emailInput, currentUser, submitBtn, reg, rst, sgo>>

\* Lines 118-131: fetch settles.
GooFetchSettles ==
    /\ location = RegisterPage
    /\ goo.pc = "post"
    /\ \E ok \in BOOLEAN :
         IF ok THEN GooSuspend([goo EXCEPT !.pc = "json"])
         ELSE GooCatch(goo, "fetch")
    /\ UNCHANGED <<location, authReady, translation, mirrorVars, themeVars,
                   emailInput, currentUser, submitBtn, reg, rst, sgo>>

\* Lines 133-147: response.json() settles.
GooJsonSettles ==
    /\ location = RegisterPage
    /\ goo.pc = "json"
    /\ \/ \E data \in RegisterData : GooData([goo EXCEPT !.data = data], data)
       \/ GooCatch(goo, "json")
    /\ UNCHANGED <<location, authReady, translation, mirrorVars, themeVars,
                   emailInput, currentUser, submitBtn, reg, rst, sgo>>

(***************************************************************************)
(* Password-Reset Flow Controller: the forgotPasswordForm submit handler   *)
(* (forgot-password-auth.js:3-33).                                         *)
(***************************************************************************)
Chars == {"a", "@", ".", " "}

\* The values the e-mail input may hold, as sequences of characters.
ResetInputs == UNION {[1..n -> Chars] : n \in 0..MaxEmailLen}

\* [^\s@]
NotSpaceNorAt(ch) == ch \notin {" ", "@"}

emailRegexTest_AllowsBlanks(email) ==
    \E i \in 1..Len(email), j \in 1..Len(email) :
        /\ email[i] = "@"
        /\ email[j] = "."
        /\ 1 < i /\ i + 1 < j /\ j < Len(email)
        /\ \A k \in 1..Len(email) : k # i => email[k] # "@"

\* /^[^\s@]+@[^\s@]+\.[^\s@]+$/.test(email), line 10-11.
emailRegexTest(email) ==
    \E i \in 1..Len(email), j \in 1..Len(email) :
        /\ email[i] = "@"
        /\ email[j] = "."
        /\ 1 < i /\ i + 1 < j /\ j < Len(email)
        /\ \A k \in 1..Len(email) : k # i => NotSpaceNorAt(email[k])

RstIdle ==
    [pc |-> "idle", end |-> "none", email |-> <<>>, originalText |-> Undefined,
     result |-> NoResult, calls |-> <<>>, shown |-> <<>>]

\* Lines 3-20: the submit event.
RstSubmit ==
    /\ location = ForgotPage
    /\ rst.pc = "idle"
    /\ ~submitBtn.disabled
    /\ LET email == emailInput
       IN
         IF ~emailRegexTest(email)
         THEN /\ rst' = [RstIdle EXCEPT !.email = email, !.end = "invalid",
                                        !.shown = <<MsgInvalidEmail>>]
              /\ errorDiv' = MsgInvalidEmail
              /\ UNCHANGED submitBtn
         ELSE /\ rst' = [RstIdle EXCEPT !.email = email, !.pc = "send",
                     !.originalText = submitBtn.innerHTML,
                     !.calls = IF authReady
                               THEN <<ProviderCall("sendPasswordResetEmail", email)>>
                               ELSE <<>>]
              /\ submitBtn' = showLoading(submitBtn)
              /\ UNCHANGED errorDiv
    /\ UNCHANGED <<location, authReady, translation, mirrorVars, themeVars,
                   emailInput, currentUser, googleBtn, successDiv, timers,
                   unhandled, reg, goo, sgo>>

\* Mutant of RstSendSettles: the redirect is scheduled after a failure too.
RstSendSettles_RedirectsOnFailure ==
    /\ location = ForgotPage
    /\ rst.pc = "send"
    /\ \E o \in ProviderOutcomes(ResetCodes) :
         LET result == resetPassword(o)
         IN  /\ rst' = [rst EXCEPT !.pc = "idle",
                             !.end = IF result.success THEN "redirect" ELSE "failed",
                             !.result = result,
                             !.shown = Append(@, IF result.success THEN MsgResetSent
                                                 ELSE result.error)]
             /\ timers' = Append(timers, Timer("reset", UrlLoginReset,
                                               ResetRedirectDelay))
             /\ IF result.success
                THEN /\ successDiv' = MsgResetSent
                     /\ UNCHANGED <<submitBtn, errorDiv>>
                ELSE /\ submitBtn' = hideLoading(submitBtn, rst.originalText)
                     /\ errorDiv' = result.error
                     /\ UNCHANGED successDiv
    /\ UNCHANGED <<location, authReady, translation, mirrorVars, themeVars,
                   emailInput, currentUser, googleBtn, unhandled, reg, goo,
                   sgo>>

\* Lines 20-32 with resetPassword (firebase-config.js:133-148):
\* sendPasswordResetEmail settles.
RstSendSettles ==
    /\ location = ForgotPage
    /\ rst.pc = "send"
    /\ \E o \in ProviderOutcomes(ResetCodes) :
         LET result == resetPassword(o)
         IN  IF result.success
             THEN /\ rst' = [rst EXCEPT !.pc = "idle", !.end = "redirect",
                                 !.result = result,
                                 !.shown = Append(@, MsgResetSent)]
                  /\ successDiv' = MsgResetSent
                  /\ timers' = Append(timers, Timer("reset", UrlLoginReset,
                                                    ResetRedirectDelay))
                  /\ UNCHANGED <<submitBtn, errorDiv>>
             ELSE /\ rst' = [rst EXCEPT !.pc = "idle", !.end = "failed",
                                 !.result = result,
                                 !.shown = Append(@, result.error)]
                  /\ submitBtn' = hideLoading(submitBtn, rst.originalText)
                  /\ errorDiv' = result.error
                  /\ UNCHANGED <<successDiv, timers>>
    /\ UNCHANGED <<location, authReady, translation, mirrorVars, themeVars,
                   emailInput, currentUser, googleBtn, unhandled, reg, goo,
                   sgo>>

(***************************************************************************)
(* signOut (firebase-config.js:151-158), called by the page's scripts.     *)
(***************************************************************************)
SgoIdle == [pc |-> "idle", result |-> NoResult]

SignOutMessages == {"A network error has occurred."}

SignOutOutcomes ==
    IF authReady
    THEN {Ok} \cup {ErrMsg("auth/network-request-failed", m) : m \in SignOutMessages}
    ELSE {ErrMsg(Undefined, TypeErrorMsg)}

SignOutCall ==
    /\ location \in {RegisterPage, ForgotPage}
    /\ sgo.pc = "idle"
    /\ sgo' = [pc |-> "signOut", result |-> NoResult]
    /\ UNCHANGED <<location, authReady, translation, mirrorVars, themeVars,
                   emailInput, currentUser, submitBtn, googleBtn, errorDiv,
                   successDiv, timers, unhandled, reg, goo, rst>>

SignOutSettles ==
    /\ location \in {RegisterPage, ForgotPage}
    /\ sgo.pc = "signOut"
    /\ \E o \in SignOutOutcomes :
         /\ sgo' = [pc |-> "idle", result |-> signOut(o)]
         /\ currentUser' = IF o.ok THEN NoUser ELSE currentUser
    /\ UNCHANGED <<location, authReady, translation, mirrorVars, themeVars,
                   emailInput, submitBtn, googleBtn, errorDiv, successDiv,
                   timers, unhandled, reg, goo, rst>>

(***************************************************************************)
(* Timers.                                                                 *)
(***************************************************************************)
\* A redirect timer fires: window.location.href is assigned and the page,
\* with every handler suspended in it, is left.
Navigate ==
    /\ location \in {RegisterPage, ForgotPage}
    /\ \E i \in DOMAIN timers : location' = timers[i].url
    /\ UNCHANGED <<authReady, translation, mirrorVars, themeVars, emailInput,
                   currentUser, submitBtn, googleBtn, errorDiv, successDiv,
                   timers, unhandled, reg, goo, rst, sgo>>

\* showError's timer (firebase-config.js:64) removes the message.
ErrorAutoRemove ==
    /\ location \in {RegisterPage, ForgotPage}
    /\ errorDiv # NoElement
    /\ errorDiv' = NoElement
    /\ UNCHANGED <<location, authReady, translation, mirrorVars, themeVars,
                   emailInput, currentUser, submitBtn, googleBtn, successDiv,
                   timers, unhandled, reg, goo, rst, sgo>>

(***************************************************************************)
(* getErrorMessage (firebase-config.js:175-198) called with any code.      *)
(***************************************************************************)
\* The codes a caller may pass: the keys of the table, strings one blank
\* away from a key, provider codes the table lacks, the names an object
\* literal inherits, and the code of an error that carries none.
TranslateInputs ==
    DOMAIN errorMessages
    \cup {c \o " " : c \in DOMAIN errorMessages}
    \cup {" " \o c : c \in DOMAIN errorMessages}
    \cup ObjectPrototypeKeys
    \cup {"auth/" \o k : k \in ObjectPrototypeKeys}
    \cup {"auth/internal-error", "auth/user-token-expired",
          "email-already-in-use", "", Undefined, Null}

NotTranslated(code) == [code |-> code, called |-> FALSE, message |-> Undefined]

Translate ==
    /\ ~translation.called
    /\ translation' = [translation EXCEPT
                           !.called = TRUE,
                           !.message = getErrorMessage(translation.code)]
    /\ UNCHANGED <<pageVars, mirrorVars, themeVars>>

(***************************************************************************)
(* The auth-state listener (firebase-config.js:200-216).                   *)
(***************************************************************************)
\* Most auth states the provider reports while the page is loaded.
MaxAuthEvents == 3

\* A provider user as the listener reads it.
Verified(user, emailVerified) ==
    [uid |-> user.uid, email |-> user.email, displayName |-> user.displayName,
     emailVerified |-> emailVerified, photoURL |-> user.photoURL]

ReportedUsers ==
    {Verified(u, v) : u \in {EmailUser(e) : e \in Emails} \cup {GoogleUser},
                      v \in {"false", "true"}}

\* JSON.stringify of one member's value: null and booleans bare, text quoted.
JsonValue(v) == IF v \in {Null, "true", "false"} THEN v ELSE "\"" \o v \o "\""

\* JSON.stringify of the object literal of lines 204-210.
JsonProfile(user) ==
    "{\"uid\":" \o JsonValue(user.uid)
       \o ",\"email\":" \o JsonValue(user.email)
       \o ",\"displayName\":" \o JsonValue(user.displayName)
       \o ",\"emailVerified\":" \o JsonValue(user.emailVerified)
       \o ",\"photoURL\":" \o JsonValue(user.photoURL) \o "}"

onAuthStateChanged_KeepsItem(storage, user) ==
    IF user # NoUser THEN JsonProfile(user) ELSE storage

\* The listener's body: the item 'firebaseUser' it leaves in `storage`.
onAuthStateChanged(storage, user) ==
    IF user # NoUser THEN JsonProfile(user) ELSE Null

\* The provider signs a user in or out and queues the notification.
ProviderReports ==
    /\ authReady
    /\ Len(authEvents) < MaxAuthEvents
    /\ \E user \in ReportedUsers \cup {NoUser} :
         /\ currentUser' = user
         /\ authEvents' = Append(authEvents, user)
    /\ UNCHANGED <<location, authReady, submitBtn, googleBtn, errorDiv,
                   successDiv, emailInput, timers, unhandled, reg, goo, rst,
                   sgo, translation, authHandled, sessionStorage, themeVars>>

\* The provider SDK calls the listener with the next reported state.
AuthStateChanged ==
    /\ authHandled < Len(authEvents)
    /\ sessionStorage' = onAuthStateChanged(sessionStorage, authEvents[authHandled + 1])
    /\ authHandled' = authHandled + 1
    /\ UNCHANGED <<pageVars, translation, authEvents, themeVars>>

(***************************************************************************)
(* ThemeManager (unnamed/part_000), one per browser tab of the origin.      *)
(***************************************************************************)
\* Tabs of the origin open at once, and most storage events queued for one.
NumTabs == 2
MaxStorageEvents == 2

Tabs == 1..NumTabs

\* What localStorage may hold under 'theme' when the tabs load.
StoredAtLoad == {Null, "dark", "light", "sepia"}

DarkColor == "#0B1120"
LightColor == "#F8FAFC"

applyTheme(tab, theme) ==
    [tab EXCEPT !.dataTheme = theme,
                !.metaColor = IF theme = "dark" THEN DarkColor ELSE LightColor]

updateToggleButton(tab) ==
    [tab EXCEPT !.label = IF tab.theme = "dark" THEN "Dark" ELSE "Light"]

\* new ThemeManager(): constructor, init and createToggleButton.
ThemeManager(stored) ==
    LET theme == JsOr(stored, "dark")
    IN  updateToggleButton(applyTheme(
            [theme |-> theme, dataTheme |-> Null, metaColor |-> Null,
             label |-> Null], theme))

\* The storage event of a setItem that changed the item.
StorageEvent(key, newValue) == [key |-> key, newValue |-> newValue]

toggleTheme(tab) ==
    LET theme == IF tab.theme = "dark" THEN "light" ELSE "dark"
    IN  updateToggleButton(applyTheme([tab EXCEPT !.theme = theme], theme))

\* The listener of line 17.
onStorage(tab, e) ==
    IF e.key = "theme"
    THEN LET theme == JsOr(e.newValue, "dark")
         IN  updateToggleButton(applyTheme([tab EXCEPT !.theme = theme], theme))
    ELSE tab

\* A click or key press on tab t's toggle.  localStorage.setItem notifies
\* the windows of the other tabs, and only when the item's value changes.
ToggleTheme(t) ==
    /\ \A o \in Tabs \ {t} : Len(storageEvents[o]) < MaxStorageEvents
    /\ tabs' = [tabs EXCEPT ![t] = toggleTheme(tabs[t])]
    /\ localStorage' = tabs'[t].theme
    /\ storageEvents' =
           [o \in Tabs |->
               IF o # t /\ localStorage' # localStorage
               THEN Append(storageEvents[o], StorageEvent("theme", localStorage'))
               ELSE storageEvents[o]]
    /\ UNCHANGED <<pageVars, translation, mirrorVars>>

\* Tab t's window dispatches the oldest storage event queued for it.
StorageChanged(t) ==
    /\ storageEvents[t] # <<>>
    /\ tabs' = [tabs EXCEPT ![t] = onStorage(tabs[t], Head(storageEvents[t]))]
    /\ storageEvents' = [storageEvents EXCEPT ![t] = Tail(storageEvents[t])]
    /\ UNCHANGED <<pageVars, translation, mirrorVars, localStorage>>

\* The item is removed by a script of the origin running in tab t (not the
\* ThemeManager): the windows of the other tabs are notified with a null
\* newValue, which the listener of line 19 turns into 'dark'.
RemoveTheme(t) ==
    /\ localStorage # Null
    /\ \A o \in Tabs \ {t} : Len(storageEvents[o]) < MaxStorageEvents
    /\ localStorage' = Null
    /\ storageEvents' =
           [o \in Tabs |->
               IF o # t
               THEN Append(storageEvents[o], StorageEvent("theme", Null))
               ELSE storageEvents[o]]
    /\ UNCHANGED <<pageVars, translation, mirrorVars, tabs>>

(***************************************************************************)
(* The specification.                                                      *)
(***************************************************************************)
\* The page just loaded: no handler has run.
PageInit ==
    /\ location \in {RegisterPage, ForgotPage}
    /\ authReady \in BOOLEAN
    /\ emailInput \in (IF location = RegisterPage THEN Emails ELSE ResetInputs)
    /\ currentUser = NoUser
    /\ submitBtn = [disabled |-> FALSE, innerHTML |-> SubmitLabel]
    /\ googleBtn = [disabled |-> FALSE, innerHTML |-> GoogleLabel]
    /\ errorDiv = NoElement
    /\ successDiv = NoElement
    /\ timers = <<>>
    /\ unhandled = {}
    /\ reg = RegIdle
    /\ goo = GooIdle
    /\ rst = RstIdle
    /\ sgo = SgoIdle

\* One loaded page, for the specifications of what runs beside its handlers.
PageIdle == PageInit /\ location = RegisterPage /\ authReady

TranslateIdle == translation = NotTranslated(Undefined)

\* sessionStorage outlives the pages of its tab: the item may be there.
MirrorInit ==
    /\ authEvents = <<>>
    /\ authHandled = 0
    /\ sessionStorage \in {Null} \cup {JsonProfile(u) : u \in ReportedUsers}

MirrorIdle == MirrorInit /\ sessionStorage = Null

ThemeInit ==
    \E stored \in StoredAtLoad :
        /\ localStorage = stored
        /\ tabs = [t \in Tabs |-> ThemeManager(stored)]
        /\ storageEvents = [t \in Tabs |-> <<>>]

ThemeIdle == ThemeInit /\ localStorage = Null

Init == PageInit /\ TranslateIdle /\ MirrorIdle /\ ThemeIdle

Next ==
    \/ RegSubmit
    \/ RegCreateSettles
    \/ RegProfileSettles
    \/ RegVerifySettles
    \/ RegTokenSettles
    \/ RegFetchSettles
    \/ RegJsonSettles
    \/ RegCheckFetchSettles
    \/ RegCheckJsonSettles
    \/ RegSignInSettles
    \/ GooClick
    \/ GooPopupSettles
    \/ GooTokenSettles
    \/ GooFetchSettles
    \/ GooJsonSettles
    \/ RstSubmit
    \/ RstSendSettles
    \/ SignOutCall
    \/ SignOutSettles
    \/ Navigate
    \/ ErrorAutoRemove

Spec == Init /\ [][Next]_vars

\* getErrorMessage alone, on every code of TranslateInputs.
InitTranslate ==
    /\ PageIdle
    /\ translation \in {NotTranslated(c) : c \in TranslateInputs}
    /\ MirrorIdle
    /\ ThemeIdle

NextTranslate == Translate

SpecTranslate == InitTranslate /\ [][NextTranslate]_vars

\* The provider's reports and the listener that mirrors them.
InitAuthState ==
    /\ PageInit
    /\ location = RegisterPage
    /\ TranslateIdle
    /\ MirrorInit
    /\ ThemeIdle

NextAuthState ==
    \/ ProviderReports
    \/ AuthStateChanged

SpecAuthState == InitAuthState /\ [][NextAuthState]_vars

\* The theme toggles of the tabs and the storage events between them.
InitTheme == PageIdle /\ TranslateIdle /\ MirrorIdle /\ ThemeInit

NextTheme ==
    \/ \E t \in Tabs : ToggleTheme(t)
    \/ \E t \in Tabs : StorageChanged(t)

SpecTheme == InitTheme /\ [][NextTheme]_vars

\* The same with the item removed at any moment by another script.
NextThemeStore ==
    \/ \E t \in Tabs : ToggleTheme(t)
    \/ \E t \in Tabs : StorageChanged(t)
    \/ \E t \in Tabs : RemoveTheme(t)

SpecThemeStore == InitTheme /\ [][NextThemeStore]_vars

(***************************************************************************)
(* Properties.                                                             *)
(***************************************************************************)
TimersTo(url) == {i \in DOMAIN timers : timers[i].url = url}

TimersBy(by) == {i \in DOMAIN timers : timers[i].by = by}

RegisterCalls(calls) == {i \in DOMAIN calls : IsRegisterCall(calls[i])}

RegEnded == reg.pc = "idle" /\ reg.end # "none"
GooEnded == goo.pc = "idle" /\ goo.end # "none"
RstEnded == rst.pc = "idle" /\ rst.end # "none"

Restored(button, label) == ~button.disabled /\ button.innerHTML = label

\* The registration handler alone: every run that ended on a failure branch
\* left #submitBtn enabled with its label, and every run that ended left it
\* enabled or scheduled the redirect.
RegControlRestored ==
    /\ reg.end = "failed" =>
           /\ Restored(submitBtn, SubmitLabel)
           /\ reg.originalText = SubmitLabel
    /\ RegEnded => (~submitBtn.disabled \/ TimersBy("register") # {})

\* C1: a registration run that ended on a failure branch has re-enabled the
\* submit control with the label it had before the submission, and no run of
\* the registration, Google sign-up or password-reset handler ends with its
\* control disabled and no redirect scheduled.
C1_ControlNeverLeftDisabled ==
    /\ reg.end = "failed" => Restored(submitBtn, reg.originalText)
    /\ RegEnded => (~submitBtn.disabled \/ TimersBy("register") # {})
    /\ GooEnded => (~googleBtn.disabled \/ TimersBy("google") # {})
    /\ RstEnded => (~submitBtn.disabled \/ TimersBy("reset") # {})

\* C2: no handler run ends in an unhandled rejection, and a run in which an
\* awaited call failed (a provider call returning failure, or a rejection of
\* token retrieval, of a fetch or of response.json()) ends with the
\* handler's control enabled.
C2_NoUnhandledRejection ==
    /\ unhandled = {}
    /\ (RegEnded /\ (reg.failedAt # "none" \/ reg.end = "failed")) =>
           ~submitBtn.disabled
    /\ (GooEnded /\ (goo.failedAt # "none" \/ goo.end = "failed")) =>
           ~googleBtn.disabled
    /\ (RstEnded /\ rst.end = "failed") => ~submitBtn.disabled

\* C3: a registration whose sign-up succeeded and whose POST to
\* /firebase-register was answered with success has scheduled exactly one
\* redirect to /login?success=..., and such a redirect is scheduled (or
\* taken) only once that answer has been received.
C3_OneLoginRedirectAfterBackendSuccess ==
    LET answered == /\ reg.branch = "normal"
                    /\ reg.result.success
                    /\ IsSet(reg.data)
                    /\ reg.data.success
    IN  /\ answered => Cardinality(TimersTo(UrlLoginCreated)) = 1
        /\ (TimersTo(UrlLoginCreated) # {} \/ location = UrlLoginCreated) =>
               /\ answered
               /\ Cardinality(TimersTo(UrlLoginCreated)) = 1
               /\ Cardinality(RegisterCalls(reg.calls)) = 1
               /\ IsRegisterCall(reg.calls[Len(reg.calls)])

C3_Witness ==
    /\ reg.branch = "normal"
    /\ IsSet(reg.data) /\ reg.data.success
    /\ location = UrlLoginCreated

\* The runs C4 is about: creation failed with auth/email-already-in-use, the
\* check answered deleted:true and the recovery sign-in succeeded.
RecoverySignedIn ==
    /\ reg.branch = "recovery"
    /\ reg.result.rawCode = "auth/email-already-in-use"
    /\ IsSet(reg.checkData) /\ reg.checkData.deleted
    /\ IsResult(reg.signInResult) /\ reg.signInResult.success

ReregistrationCalls(calls) ==
    {i \in RegisterCalls(calls) : calls[i].body.is_reregistration = "true"}

\* C4 as stated: such a run, once ended, has made exactly one call to
\* /firebase-register, carrying is_reregistration:true.
C4_ExactlyOneReregistrationCall ==
    (RecoverySignedIn /\ RegEnded) =>
        /\ Cardinality(RegisterCalls(reg.calls)) = 1
        /\ ReregistrationCalls(reg.calls) = RegisterCalls(reg.calls)

\* C4 amended: such a run makes at most one call to /firebase-register and
\* every such call carries is_reregistration:true; it has made exactly one
\* once getUserToken has settled without rejecting, and none if it rejected.
C4_OneReregistrationCallUnlessTokenFails ==
    RecoverySignedIn =>
        /\ Cardinality(RegisterCalls(reg.calls)) <= 1
        /\ ReregistrationCalls(reg.calls) = RegisterCalls(reg.calls)
        /\ (reg.pc # "token" /\ reg.failedAt # "getIdToken") =>
               Cardinality(RegisterCalls(reg.calls)) = 1
        /\ reg.failedAt = "getIdToken" => RegisterCalls(reg.calls) = {}

C4_Witness ==
    /\ RecoverySignedIn
    /\ reg.end = "redirect"
    /\ Cardinality(ReregistrationCalls(reg.calls)) = 1

\* C5: when creation failed with auth/email-already-in-use and the check
\* answered deleted:false, the run ends showing the provider's translated
\* text for that code, not a generic message, and has called neither
\* signInWithEmail nor /firebase-register.
C5_NotDeletedShowsProviderError ==
    (/\ IsResult(reg.result)
     /\ ~reg.result.success
     /\ reg.result.rawCode = "auth/email-already-in-use"
     /\ IsSet(reg.checkData)
     /\ ~reg.checkData.deleted) =>
        /\ RegEnded /\ reg.end = "failed"
        /\ reg.shown = <<errorMessages["auth/email-already-in-use"]>>
        /\ reg.shown[1] \notin {MsgFallback, MsgNetwork, MsgRegFailed,
                                 MsgReregFailed, MsgAccountExists}
        /\ RegisterCalls(reg.calls) = {}
        /\ \A i \in DOMAIN reg.calls :
               reg.calls[i].api # "signInWithEmailAndPassword"
        /\ IsResult(reg.signInResult) = FALSE

C5_Witness ==
    /\ reg.branch = "recovery"
    /\ reg.checkData = [deleted |-> FALSE]
    /\ reg.end = "failed"

\* C6: a submission whose password differs from the confirmation issues no
\* provider or backend request, shows "Passwords do not match!" and leaves
\* the submit control enabled with its label unchanged.
C6_MismatchIssuesNoRequest ==
    reg.password # reg.confirmPassword =>
        /\ reg.pc = "idle"
        /\ reg.calls = <<>>
        /\ reg.shown = <<"Passwords do not match!">>
        /\ Restored(submitBtn, SubmitLabel)

\* C6, the step itself: the message is in the page right after the
\* submission and the control is untouched.
C6_MismatchStep ==
    [][(reg' # reg /\ reg'.password # reg'.confirmPassword) =>
          /\ errorDiv' = "Passwords do not match!"
          /\ submitBtn' = submitBtn
          /\ currentUser' = currentUser]_vars

C6_Witness ==
    /\ reg.password # reg.confirmPassword
    /\ reg.end = "mismatch"
    /\ errorDiv = MsgMismatch

\* The runs C7 is about: the recovery sign-in failed.
RecoverySignInFailed ==
    /\ reg.branch = "recovery"
    /\ IsResult(reg.signInResult)
    /\ ~reg.signInResult.success

\* C7 as stated: the message shown is the original error of the failed
\* creation, the text shown when the e-mail is not soft-deleted.
C7_SignInFailureShowsOriginalError ==
    RecoverySignInFailed => reg.shown = <<reg.result.error>>

\* C7 amended: the message shown is the handler's own fixed "An account with
\* this email exists..." text, which is neither the creation's translated
\* error nor the sign-in's; the run ends with the control re-enabled.
C7_SignInFailureShowsAccountExists ==
    RecoverySignInFailed =>
        /\ reg.shown = <<MsgAccountExists>>
        /\ MsgAccountExists # reg.result.error
        /\ MsgAccountExists # reg.signInResult.error
        /\ reg.end = "failed"
        /\ Restored(submitBtn, SubmitLabel)

C7_Witness ==
    /\ RecoverySignInFailed
    /\ reg.end = "failed"
    /\ errorDiv = MsgAccountExists

\* C8: a registration run in which the token retrieval, a fetch or a
\* response.json() rejected (step 3 or step 4) has shown the generic
\* network-error message and re-enabled the submit control.
C8_TransportFailureShowsNetworkError ==
    (RegEnded /\ reg.failedAt # "none") =>
        /\ reg.shown = <<MsgNetwork>>
        /\ Restored(submitBtn, SubmitLabel)

\* C9: signUpWithEmail returns success whenever the creation call succeeded,
\* and on failure its rawCode is the error code of the creation call.
C9_SignUpSurfacesCreationOutcome ==
    IsResult(reg.result) =>
        /\ reg.created = "ok" => reg.result.success
        /\ ~reg.result.success => reg.result.rawCode = reg.created

\* The AuthResults the wrapper has returned, each with its function.
Returned ==
    {r \in {[fn |-> "signUpWithEmail", result |-> reg.result],
             [fn |-> "signInWithEmail", result |-> reg.signInResult],
             [fn |-> "signInWithGoogle", result |-> goo.result],
             [fn |-> "resetPassword", result |-> rst.result],
             [fn |-> "signOut", result |-> sgo.result]} : IsResult(r.result)}

\* C10 as stated: in every AuthResult, success holds iff `user` is present,
\* and iff `error` is absent.
C10_SuccessIffUserIffNoError ==
    \A r \in Returned :
        /\ r.result.success <=> "user" \in DOMAIN r.result
        /\ r.result.success <=> "error" \notin DOMAIN r.result

\* C10 amended: in every AuthResult success holds iff `error` is absent; it
\* holds iff `user` is present in those of signInWithEmail, signUpWithEmail
\* and signInWithGoogle, while resetPassword and signOut never return a user.
C10_SuccessIffNoError ==
    \A r \in Returned :
        /\ r.result.success <=> "error" \notin DOMAIN r.result
        /\ r.fn \in {"signInWithEmail", "signUpWithEmail", "signInWithGoogle"} =>
               (r.result.success <=> "user" \in DOMAIN r.result)
        /\ r.fn \in {"resetPassword", "signOut"} => "user" \notin DOMAIN r.result

C10_Witness ==
    /\ IsResult(rst.result) /\ rst.result.success
    /\ IsResult(sgo.result) /\ ~sgo.result.success

\* C11: getErrorMessage is total: called with a key of the table it returns
\* exactly the string mapped to that key, and called with anything else (a
\* string that is no key, a name inherited from the object prototype, an
\* undefined code) it returns the fixed fallback message.
C11_TranslateTotalWithFallback ==
    translation.called =>
        translation.message =
            IF translation.code \in DOMAIN errorMessages
            THEN errorMessages[translation.code]
            ELSE MsgFallback

\* The shape local@domain.tld: no blank, exactly one "@", text before it, and
\* after it a "." with text on both of its sides.
HasEmailShape(email) ==
    LET ats == {i \in 1..Len(email) : email[i] = "@"}
    IN  /\ Cardinality(ats) = 1
        /\ \A k \in 1..Len(email) : email[k] # " "
        /\ LET at == CHOOSE i \in ats : TRUE
               local == SubSeq(email, 1, at - 1)
               domainTld == SubSeq(email, at + 1, Len(email))
           IN  /\ local # <<>>
               /\ \E d \in 1..Len(domainTld) :
                      domainTld[d] = "." /\ 1 < d /\ d < Len(domainTld)

RstSubmitted == rst.pc # "idle" \/ rst.end # "none"

\* C12: the reset handler rejects a value that lacks the local@domain.tld
\* shape without calling resetPassword and without disabling the control,
\* and for a value of that shape it calls resetPassword exactly once.
C12_ResetCalledIffEmailShape ==
    RstSubmitted =>
        IF HasEmailShape(rst.email)
        THEN /\ rst.end # "invalid"
             /\ (rst.pc = "send") # IsResult(rst.result)
             /\ Len(rst.calls) = (IF authReady THEN 1 ELSE 0)
             /\ \A i \in DOMAIN rst.calls :
                    rst.calls[i] = ProviderCall("sendPasswordResetEmail", rst.email)
        ELSE /\ rst.end = "invalid"
             /\ rst.pc = "idle"
             /\ ~IsResult(rst.result)
             /\ rst.calls = <<>>
             /\ rst.shown = <<MsgInvalidEmail>>
             /\ submitBtn = [disabled |-> FALSE, innerHTML |-> SubmitLabel]

\* A value with an "@" and a "." that lacks the shape has been rejected.
C12_Witness ==
    /\ rst.end = "invalid"
    /\ \E i, j \in 1..Len(rst.email) : rst.email[i] = "@" /\ rst.email[j] = "."

\* A value of the shape has been accepted and resetPassword called.
C12_Accepted == rst.pc = "send" /\ HasEmailShape(rst.email)

AllAuthEventsHandled == authEvents # <<>> /\ authHandled = Len(authEvents)

LastReported == authEvents[Len(authEvents)]

\* C13: once every auth-state notification has been handled, the item
\* firebaseUser exists exactly when the provider's last report was a signed-in
\* user, and it is then the profile of that user and of no other; handling a
\* notification a second time leaves the item as handling it once did.
C13_MirrorFollowsLastReport ==
    /\ AllAuthEventsHandled =>
           /\ sessionStorage # Null <=> LastReported # NoUser
           /\ \A u \in ReportedUsers :
                  sessionStorage = JsonProfile(u) <=> u = LastReported
    /\ \A u \in ReportedUsers \cup {NoUser} :
           onAuthStateChanged(onAuthStateChanged(sessionStorage, u), u)
               = onAuthStateChanged(sessionStorage, u)

\* A sign-in and then a sign-out have been reported and handled: the item
\* written for the sign-in has been removed.
C13_Witness ==
    /\ AllAuthEventsHandled
    /\ Len(authEvents) >= 2
    /\ authEvents[Len(authEvents) - 1] # NoUser
    /\ LastReported = NoUser
    /\ sessionStorage = Null

RegInFlight == reg.pc # "idle"

GooInFlight == goo.pc # "idle"

\* C14 as stated: on the registration page at most one handler run is
\* suspended at an await: while a run of the e-mail handler or of the Google
\* handler is in flight, no run of either handler starts.
C14_OneRunInFlight == ~(RegInFlight /\ GooInFlight)

\* C14 amended: while a run of a handler is suspended at an await the control
\* that started it is disabled and shows the spinner, so that no second run
\* of the same handler starts; the other handler's control stays usable.
C14_OneRunPerControl ==
    /\ RegInFlight => submitBtn = [disabled |-> TRUE, innerHTML |-> SpinnerHTML]
    /\ GooInFlight => googleBtn = [disabled |-> TRUE, innerHTML |-> SpinnerHTML]

\* Both handlers are suspended at an await, each behind its own control.
C14_Witness ==
    /\ RegInFlight /\ GooInFlight
    /\ submitBtn.disabled /\ googleBtn.disabled

\* The texts an AuthResult's `error` may be: a message of the translator, or
\* the message of the error signOut caught.
ErrorTexts ==
    {errorMessages[c] : c \in DOMAIN errorMessages}
        \cup {MsgFallback, TypeErrorMsg} \cup SignOutMessages

\* The codes a rejection of a provider call may carry; a TypeError has none.
RejectionCodes ==
    DOMAIN errorMessages
        \cup {"auth/internal-error", "auth/user-token-expired", Undefined}

FailsSoftly(result) ==
    /\ ~result.success
    /\ "error" \in DOMAIN result
    /\ result.error \in ErrorTexts

\* C15: signInWithEmail, signInWithGoogle, resetPassword and signOut never
\* throw: whatever way the provider call fails (a rejection with any code, a
\* cancelled or blocked pop-up, an uninitialised provider) they return an
\* AuthResult with success false and an error text; so does every result
\* they have returned without success to a handler.
C15_WrappersFailSoftly ==
    /\ \A c \in RejectionCodes, u \in {EmailUser(e) : e \in Emails} \cup {GoogleUser} :
           /\ FailsSoftly(signInWithEmail(Err(c), u))
           /\ FailsSoftly(signInWithGoogle(Err(c), u))
           /\ FailsSoftly(resetPassword(Err(c)))
    /\ \A o \in SignOutOutcomes : ~o.ok => FailsSoftly(signOut(o))
    /\ \A r \in Returned :
           r.fn \in {"signInWithEmail", "signInWithGoogle", "resetPassword", "signOut"}
               => r.result.success \/ FailsSoftly(r.result)

\* With the provider not initialised, signOut and the page's own wrapper call
\* (the pop-up sign-in or the reset request) have each returned a failure.
C15_Witness ==
    /\ ~authReady
    /\ \/ IsResult(goo.result) /\ FailsSoftly(goo.result)
       \/ IsResult(rst.result) /\ FailsSoftly(rst.result)
    /\ IsResult(sgo.result) /\ FailsSoftly(sgo.result)

RstReturned == IsResult(rst.result)

\* C16: in the reset handler a redirect to the login page is scheduled exactly
\* when resetPassword returned success; when it returned a failure the error
\* it returned is shown, no redirect is scheduled and the submit control is
\* enabled again with its label.
C16_ResetRedirectIffSuccess ==
    /\ TimersBy("reset") # {} <=> RstReturned /\ rst.result.success
    /\ Cardinality(TimersBy("reset")) <= 1
    /\ \A i \in TimersBy("reset") :
           timers[i] = Timer("reset", UrlLoginReset, ResetRedirectDelay)
    /\ RstReturned /\ ~rst.result.success =>
           /\ rst.shown = <<rst.result.error>>
           /\ timers = <<>>
           /\ location = ForgotPage
           /\ submitBtn = [disabled |-> FALSE, innerHTML |-> SubmitLabel]

\* A run that failed was followed by one that succeeded: the only redirect
\* is the second run's.
C16_Witness ==
    /\ RstReturned /\ rst.result.success
    /\ Len(timers) = 1
    /\ successDiv = MsgResetSent
    /\ errorDiv # NoElement

\* The bodies posted to /firebase-register by the runs of both handlers.
RegisterBodies ==
    {reg.calls[i].body : i \in RegisterCalls(reg.calls)}
        \cup {goo.calls[i].body : i \in RegisterCalls(goo.calls)}

\* C17: every POST to /firebase-register carries a token of the user whose
\* uid and email are in its body, and never a null token, also when the two
\* handlers interleave at their awaits.
C17_TokenBelongsToBodyUser ==
    \A body \in RegisterBodies :
        /\ body.token # Null
        /\ body.token = IdToken([uid |-> body.uid])
        /\ \E u \in {EmailUser(e) : e \in Emails} \cup {GoogleUser} :
               u.uid = body.uid /\ u.email = body.email

\* The same, for a token that is there: it is a token of the body's user.
C17_PresentTokenBelongsToBodyUser ==
    \A body \in RegisterBodies :
        body.token # Null => body.token = IdToken([uid |-> body.uid])

\* The provider call `api` was made in the run before its i-th call.
CalledBefore(calls, api, i) == \E j \in 1..(i - 1) : calls[j].api = api

\* C18: a handler run requests /firebase-register only after a provider
\* authentication call of that same run (signUpWithEmail, the recovery
\* signInWithEmail, signInWithGoogle) has returned success, and at most once.
C18_RegisterOnlyAfterAuthSuccess ==
    /\ \A i \in RegisterCalls(reg.calls) :
           \/ /\ reg.branch = "normal"
              /\ IsResult(reg.result) /\ reg.result.success
              /\ CalledBefore(reg.calls, "createUserWithEmailAndPassword", i)
           \/ /\ reg.branch = "recovery"
              /\ IsResult(reg.signInResult) /\ reg.signInResult.success
              /\ CalledBefore(reg.calls, "signInWithEmailAndPassword", i)
    /\ \A i \in RegisterCalls(goo.calls) :
           /\ IsResult(goo.result) /\ goo.result.success
           /\ CalledBefore(goo.calls, "signInWithPopup", i)
    /\ Cardinality(RegisterCalls(reg.calls)) <= 1
    /\ Cardinality(RegisterCalls(goo.calls)) <= 1

\* A run of each handler has made its request, the e-mail handler's after
\* the recovery sign-in.
C18_Witness ==
    /\ reg.branch = "recovery"
    /\ Cardinality(RegisterCalls(reg.calls)) = 1
    /\ Cardinality(RegisterCalls(goo.calls)) = 1

\* In the run's call log the creation, the check of the deleted e-mail and
\* the sign-in come in that order before the i-th call.
RecoveryOrderBefore(calls, i) ==
    \E a, b, c \in 1..(i - 1) :
        /\ a < b /\ b < c
        /\ calls[a].api = "createUserWithEmailAndPassword"
        /\ calls[b] = Fetch(UrlCheckDeleted, [email |-> reg.email])
        /\ calls[c].api = "signInWithEmailAndPassword"

\* C19: a request with is_reregistration true is sent only in a run where the
\* creation failed with auth/email-already-in-use, then check-deleted-email
\* answered deleted:true, then signInWithEmail succeeded, in that order; every
\* other request sends is_reregistration false or sends no such key.
C19_ReregistrationFlagOnlyAfterRecovery ==
    /\ \A i \in RegisterCalls(reg.calls) :
           IF reg.calls[i].body.is_reregistration = "true"
           THEN RecoverySignedIn /\ RecoveryOrderBefore(reg.calls, i)
           ELSE /\ reg.calls[i].body.is_reregistration = "false"
                /\ reg.branch = "normal"
    /\ \A i \in RegisterCalls(goo.calls) :
           "is_reregistration" \notin DOMAIN goo.calls[i].body

\* The e-mail run has sent its re-registration request and the Google run a
\* request without the key.
C19_Witness ==
    /\ ReregistrationCalls(reg.calls) # {}
    /\ RegisterCalls(goo.calls) # {}

\* A run on the normal path has sent its request, with the flag false.
C19_NormalRequestSent ==
    \E i \in RegisterCalls(reg.calls) : reg.calls[i].body.is_reregistration = "false"

AllStorageEventsDelivered == \A t \in Tabs : storageEvents[t] = <<>>

\* C20: the theme is synchronised across tabs: whatever the interleaving of
\* the tabs' toggleTheme calls and of the delivery of storage events, once
\* every event is delivered (and before any further toggle) each tab's
\* in-memory theme equals the persisted `theme` item.
C20_TabsAgreeOnceDelivered ==
    AllStorageEventsDelivered /\ localStorage # Null =>
        \A t \in Tabs : tabs[t].theme = localStorage

IsDarkOrLight(theme) == theme \in {"dark", "light"}

\* Tab t's toggleTheme ran in this step: its ThemeManager changed while no
\* storage event was taken from its queue.
Toggled(t) == tabs'[t] # tabs[t] /\ storageEvents'[t] = storageEvents[t]

\* C21, first part: every tab's in-memory theme and the persisted item are
\* each dark or light, whatever the item held when the tabs loaded.
C21_ThemesAreDarkOrLight ==
    /\ IsDarkOrLight(localStorage)
    /\ \A t \in Tabs : IsDarkOrLight(tabs[t].theme)

\* C21, second part: right after a tab's toggleTheme the persisted item
\* equals that tab's in-memory theme.
C21_ToggleWritesTheme ==
    [][\A t \in Tabs : Toggled(t) => localStorage' = tabs'[t].theme]_vars

\* C21, third part: two consecutive toggles of a tab restore its theme.
C21_TwoTogglesRestore ==
    \A t \in Tabs : toggleTheme(toggleTheme(tabs[t])).theme = tabs[t].theme

\* C21: in every reachable state of ThemeManager, whatever the persisted
\* `theme` item held at page load and after any toggles and storage events
\* (removal of the item included), the in-memory theme and the persisted
\* item are each dark or light; right after toggleTheme the persisted item
\* equals the in-memory theme; two consecutive toggles restore the theme.
C21_ThemeInvariants ==
    /\ []C21_ThemesAreDarkOrLight
    /\ C21_ToggleWritesTheme
    /\ []C21_TwoTogglesRestore

====
